---- MODULE Spec2Model ----
(***************************************************************************)
(* PolicyPrivilegeForm: the "privileges" and "resources" part of the       *)
(* access-policy editor.  The component is a controlled form: the parent   *)
(* owns `resources` and `privileges`, the component owns the domain search *)
(* text and the focus flag, and two lazy search queries feed the option    *)
(* lists.  Every user interaction is one action of the model; `last` names *)
(* the interaction that ran last and `called` counts what it called.       *)
(***************************************************************************)
EXTENDS FiniteSets, Integers, Sequences, TLC

\* ------------------------------------------------------------------ bounds
MaxSelected == 2    \* most values selected at once, over the filter and the privileges
MaxText == 4        \* longest search text typed into a search box
MaxTimers == 1      \* most click-outside timeouts pending at once

\* --------------------------------------------------------- sequence helpers
\* Array.prototype.map (Array.prototype.filter is SelectSeq)
MapSeq(s, F(_)) == [i \in 1..Len(s) |-> F(s[i])]

Range(s) == {s[i] : i \in 1..Len(s)}

\* Array.prototype.find as an optional: <<>> when nothing matches
FindFirst(s, Test(_)) ==
  LET hits == SelectSeq(s, Test) IN IF hits = <<>> THEN <<>> ELSE <<hits[1]>>

\* ------------------------------------------------------------ text (strings)
Chars == {" ", "a"}
Texts == UNION {[1..n -> Chars] : n \in 0..MaxText}

IsWhitespace(c) == c = " "

RECURSIVE trimStart(_)
trimStart(s) ==
  IF s # <<>> /\ IsWhitespace(Head(s)) THEN trimStart(Tail(s)) ELSE s

RECURSIVE trimEnd(_)
trimEnd(s) ==
  IF s # <<>> /\ IsWhitespace(s[Len(s)]) THEN trimEnd(SubSeq(s, 1, Len(s) - 1)) ELSE s

\* String.prototype.trim
trim(s) == trimEnd(trimStart(s))

Wildcard == <<"*">>

\* ------------------------------------------------------------------ catalog
Platform == "PLATFORM"
Metadata == "METADATA"

EntityTypeDomain == "DOMAIN"

\* The privilege catalog served by the application configuration.
AppPoliciesConfig ==
  [platformPrivileges |-> <<[type |-> "MANAGE_POLICIES"], [type |-> "MANAGE_DOMAINS"]>>,
   resourcePrivileges |->
     <<[resourceType |-> "dataset", entityType |-> "DATASET",
        privileges |-> <<[type |-> "VIEW"], [type |-> "EDIT_TAGS"]>>],
       [resourceType |-> "chart", entityType |-> "CHART",
        privileges |-> <<[type |-> "EDIT_TAGS"]>>],
       [resourceType |-> "all", entityType |-> "null",
        privileges |-> <<[type |-> "EDIT_TAGS"], [type |-> "VIEW"]>>]>>]

\* domains offered by the domain navigator
DomainUrns == {"dom:1"}

\* ---------------------------------------------------------------- policyUtils
\* The helpers the component imports from ./policyUtils, by their contract at
\* the call sites: a filter is a list of criteria, one value list per field.
createCriterionValue(value) == [value |-> value, entity |-> "null"]

createCriterionValueWithEntity(value, entity) == [value |-> value, entity |-> entity]

createCriterion(field, values) == [field |-> field, values |-> values, condition |-> "EQUALS"]

\* A ResourceFilter; the optional `filter` is a sequence of length 0 or 1.
LegacyFields(type, res, all) == [type |-> type, resources |-> res, allResources |-> all, filter |-> <<>>]

EmptyFilter == [criteria |-> <<>>]

\* getFieldValues(filter, field): values of the first criterion on the field
getFieldValues(filter, resourceFieldType) ==
  IF filter = <<>> THEN <<>>
  ELSE LET hit == FindFirst(filter[1].criteria, LAMBDA c : c.field = resourceFieldType)
       IN IF hit = <<>> THEN <<>> ELSE hit[1].values

\* setFieldValues(filter, field, values): the filter with the field's criterion replaced
setFieldValues(filter, resourceFieldType, values) ==
  LET restCriteria == SelectSeq(filter.criteria, LAMBDA c : c.field # resourceFieldType)
  IN IF values = <<>> THEN [filter EXCEPT !.criteria = restCriteria]
     ELSE [filter EXCEPT !.criteria = Append(restCriteria, createCriterion(resourceFieldType, values))]

\* convertLegacyResourceFilter(maybeResources): optional in, optional out
convertLegacyResourceFilter(resourceFilter) ==
  IF resourceFilter = <<>> \/ resourceFilter[1].filter # <<>> THEN resourceFilter
  ELSE LET rf == resourceFilter[1]
           typeCriteria == IF rf.type # "" THEN <<createCriterion("TYPE", <<createCriterionValue(rf.type)>>)>>
                           ELSE <<>>
           urnCriteria == IF rf.resources # <<>>
                          THEN <<createCriterion("URN", MapSeq(rf.resources, createCriterionValue))>>
                          ELSE <<>>
       IN <<[type |-> "", resources |-> <<>>, allResources |-> FALSE,
             filter |-> <<[criteria |-> typeCriteria \o urnCriteria]>>]>>

\* mapResourceTypeToEntityType(resourceType, resourcePrivileges): "null" when unmapped
mapResourceTypeToEntityType(resourceType, resourcePrivilegesArr) ==
  LET hits == SelectSeq(resourcePrivilegesArr, LAMBDA p : p.resourceType = resourceType)
  IN IF Len(hits) = 1 THEN hits[1].entityType ELSE "null"

\* mapResourceTypeToPrivileges(resourceTypes, resourcePrivileges)
mapResourceTypeToPrivileges(resourceTypes, resourcePrivilegesArr) ==
  IF resourceTypes = <<>>
  THEN LET all == FindFirst(resourcePrivilegesArr, LAMBDA p : p.resourceType = "all")
       IN IF all = <<>> THEN <<>> ELSE all[1].privileges
  ELSE LET matched == SelectSeq(resourcePrivilegesArr, LAMBDA p : p.resourceType \in Range(resourceTypes))
       IN IF matched = <<>> THEN <<>>
          ELSE SelectSeq(matched[1].privileges,
                           LAMBDA pr : \A i \in 1..Len(matched) : pr \in Range(matched[i].privileges))

\* -------------------------------------------------------------------- state
VARIABLES
  policyType,            \* prop
  policiesConfig,        \* useAppConfig().config.policiesConfig, optional
  emptyPolicyResources,  \* EMPTY_POLICY.resources
  maybeResources,        \* prop `resources`, optional, owned by the parent
  privileges,            \* prop, owned by the parent
  domainInputValue,      \* useState('')
  isFocusedOnInput,      \* useState(false)
  resourcesSearch,       \* the multi-entity lazy query: status and data
  domainsSearch,         \* the domain lazy query: status and data
  pendingTimeouts,       \* click-outside timeouts not yet run
  last,                  \* the interaction that ran last and its argument
  called                 \* how often that interaction called each callee

vars == <<policyType, policiesConfig, emptyPolicyResources, maybeResources, privileges,
          domainInputValue, isFocusedOnInput, resourcesSearch, domainsSearch,
          pendingTimeouts, last, called>>

\* ------------------------------------------------- render-time derived values
resources ==
  LET converted == convertLegacyResourceFilter(maybeResources)
  IN IF converted # <<>> THEN converted[1] ELSE emptyPolicyResources

resourceTypes == getFieldValues(resources.filter, "TYPE")
resourceEntities == getFieldValues(resources.filter, "URN")
domains == getFieldValues(resources.filter, "DOMAIN")

\* data?.searchAcrossEntities?.searchResults and data?.search?.searchResults
resourceSearchResults == resourcesSearch.data
domainSearchResults == domainsSearch.data

\* the resource inputs shown for every policy type
showResourceFilterInput_Always == TRUE

showResourceFilterInput == policyType # Platform

resourceTypeSelectValue == MapSeq(resourceTypes, LAMBDA cv : cv.value)
resourceSelectValue == MapSeq(resourceEntities, LAMBDA cv : cv.value)
domainSelectValue == MapSeq(domains, LAMBDA cv : cv.value)
privilegesSelectValue == privileges
isShowingDomainNavigator == domainInputValue = <<>> /\ isFocusedOnInput

platformPrivileges == IF policiesConfig = <<>> THEN <<>> ELSE policiesConfig[1].platformPrivileges
resourcePrivileges == IF policiesConfig = <<>> THEN <<>> ELSE policiesConfig[1].resourcePrivileges
resourcePrivilegesForType == mapResourceTypeToPrivileges(resourceTypeSelectValue, resourcePrivileges)
privilegeOptions == IF policyType = Platform THEN platformPrivileges ELSE resourcePrivilegesForType

\* search results are lists of entities, an entity being named by its urn
getEntityFromSearchResults(searchResults, urn) ==
  LET hit == FindFirst(searchResults, LAMBDA e : e = urn)
  IN IF hit = <<>> THEN "null" ELSE hit[1]

\* ------------------------------------------------------------------ handlers
\* A handler is the record of the calls it makes, in order, per callee.
NoCalls ==
  [setResources |-> <<>>, setPrivileges |-> <<>>, searchResources |-> <<>>,
   searchDomains |-> <<>>, setDomainInputValue |-> <<>>, setIsFocusedOnInput |-> <<>>,
   setTimeout |-> 0]

\* resources.filter || { criteria: [] }
filterOrEmpty == IF resources.filter # <<>> THEN resources.filter[1] ELSE EmptyFilter

\* 'All' adds the offered privileges to the ones already selected
onSelectPrivilege_AllAppends(privilege) ==
  IF privilege = "All"
  THEN [NoCalls EXCEPT !.setPrivileges = <<privileges \o MapSeq(privilegeOptions, LAMBDA priv : priv.type)>>]
  ELSE [NoCalls EXCEPT !.setPrivileges = <<Append(privileges, privilege)>>]

onSelectPrivilege(privilege) ==
  IF privilege = "All"
  THEN [NoCalls EXCEPT !.setPrivileges = <<MapSeq(privilegeOptions, LAMBDA priv : priv.type)>>]
  ELSE [NoCalls EXCEPT !.setPrivileges = <<Append(privileges, privilege)>>]

onDeselectPrivilege(privilege) ==
  LET newPrivs == IF privilege = "All" THEN <<>>
                  ELSE SelectSeq(privileges, LAMBDA priv : priv # privilege)
  IN [NoCalls EXCEPT !.setPrivileges = <<newPrivs>>]

\* a change of resource types that also clears the privileges
onSelectResourceType_ClearsPrivileges(selectedResourceType) ==
  [NoCalls EXCEPT !.setResources =
     <<[resources EXCEPT !.filter =
          <<setFieldValues(filterOrEmpty, "TYPE",
                           Append(resourceTypes, createCriterionValue(selectedResourceType)))>>]>>,
                  !.setPrivileges = <<<<>>>>]

onSelectResourceType(selectedResourceType) ==
  [NoCalls EXCEPT !.setResources =
     <<[resources EXCEPT !.filter =
          <<setFieldValues(filterOrEmpty, "TYPE",
                           Append(resourceTypes, createCriterionValue(selectedResourceType)))>>]>>]

\* only the first occurrence is removed
onDeselectResourceType_FirstOnly(deselectedResourceType) ==
  LET hits == {i \in 1..Len(resourceTypes) : resourceTypes[i].value = deselectedResourceType}
      first == CHOOSE i \in hits : \A j \in hits : i <= j
      kept == IF hits = {} THEN resourceTypes
              ELSE SubSeq(resourceTypes, 1, first - 1) \o SubSeq(resourceTypes, first + 1, Len(resourceTypes))
  IN [NoCalls EXCEPT !.setResources =
        <<[resources EXCEPT !.filter = <<setFieldValues(filterOrEmpty, "TYPE", kept)>>]>>]

onDeselectResourceType(deselectedResourceType) ==
  [NoCalls EXCEPT !.setResources =
     <<[resources EXCEPT !.filter =
          <<setFieldValues(filterOrEmpty, "TYPE",
                           SelectSeq(resourceTypes, LAMBDA cv : cv.value # deselectedResourceType))>>]>>]

\* a resource already selected is not added again
onSelectResource_Deduplicated(resource) ==
  LET added == createCriterionValueWithEntity(
                 resource, getEntityFromSearchResults(resourceSearchResults, resource))
      values == IF \E i \in 1..Len(resourceEntities) : resourceEntities[i].value = resource
                THEN resourceEntities ELSE Append(resourceEntities, added)
  IN [NoCalls EXCEPT !.setResources =
        <<[resources EXCEPT !.filter = <<setFieldValues(filterOrEmpty, "URN", values)>>]>>]

onSelectResource(resource) ==
  [NoCalls EXCEPT !.setResources =
     <<[resources EXCEPT !.filter =
          <<setFieldValues(filterOrEmpty, "URN",
                           Append(resourceEntities,
                                  createCriterionValueWithEntity(
                                    resource,
                                    getEntityFromSearchResults(resourceSearchResults, resource))))>>]>>]

onDeselectResource(resource) ==
  [NoCalls EXCEPT !.setResources =
     <<[resources EXCEPT !.filter =
          <<setFieldValues(filterOrEmpty, "URN",
                           SelectSeq(resourceEntities, LAMBDA cv : cv.value # resource))>>]>>]

\* domainObj is "null" when the handler is called with the urn alone
onSelectDomain(domainUrn, domainObj) ==
  LET domainEntity == IF domainObj # "null" THEN domainObj
                      ELSE getEntityFromSearchResults(domainSearchResults, domainUrn)
      updatedFilter == setFieldValues(filterOrEmpty, "DOMAIN",
                                      Append(domains, createCriterionValueWithEntity(domainUrn, domainEntity)))
  IN [NoCalls EXCEPT !.setResources = <<[resources EXCEPT !.filter = <<updatedFilter>>]>>]

selectDomainFromBrowser(domain) ==
  [onSelectDomain(domain, domain) EXCEPT !.setIsFocusedOnInput = <<FALSE>>]

\* the filter is rebuilt from an empty one
onDeselectDomain_FreshFilter(domain) ==
  [NoCalls EXCEPT !.setResources =
     <<[resources EXCEPT !.filter =
          <<setFieldValues(EmptyFilter, "DOMAIN",
                           SelectSeq(domains, LAMBDA cv : cv.value # domain))>>]>>]

onDeselectDomain(domain) ==
  [NoCalls EXCEPT !.setResources =
     <<[resources EXCEPT !.filter =
          <<setFieldValues(filterOrEmpty, "DOMAIN",
                           SelectSeq(domains, LAMBDA cv : cv.value # domain))>>]>>]

handleResourceSearch(text) ==
  LET trimmedText == trim(text)
      entityTypes == SelectSeq(
                       MapSeq(resourceTypeSelectValue,
                              LAMBDA resourceType : mapResourceTypeToEntityType(resourceType, resourcePrivileges)),
                       LAMBDA entityType : entityType # "null")
  IN [NoCalls EXCEPT !.searchResources =
        <<[types |-> entityTypes,
           query |-> IF Len(trimmedText) > 2 THEN trimmedText ELSE Wildcard,
           start |-> 0, count |-> 10]>>]

\* the query carries the text as typed
handleDomainSearch_Untrimmed(text) ==
  LET trimmedText == trim(text)
  IN [NoCalls EXCEPT !.setDomainInputValue = <<trimmedText>>,
                     !.searchDomains =
                       <<[type |-> EntityTypeDomain,
                          query |-> IF Len(trimmedText) > 2 THEN text ELSE Wildcard,
                          start |-> 0, count |-> 10]>>]

handleDomainSearch(text) ==
  LET trimmedText == trim(text)
  IN [NoCalls EXCEPT !.setDomainInputValue = <<trimmedText>>,
                     !.searchDomains =
                       <<[type |-> EntityTypeDomain,
                          query |-> IF Len(trimmedText) > 2 THEN trimmedText ELSE Wildcard,
                          start |-> 0, count |-> 10]>>]

handleCLickOutside == [NoCalls EXCEPT !.setTimeout = 1]

handleBlur == [NoCalls EXCEPT !.setDomainInputValue = <<<<>>>>]

onFocus == [NoCalls EXCEPT !.setIsFocusedOnInput = <<TRUE>>]

\* ------------------------------------------------------------ rendered options
resourceTypeOptions ==
  Range(MapSeq(SelectSeq(resourcePrivileges, LAMBDA privs : privs.resourceType # "all"),
               LAMBDA resPrivs : resPrivs.resourceType))
resourceOptions == Range(resourceSearchResults)
domainOptions == Range(domainSearchResults)
privilegeOptionValues == Range(MapSeq(privilegeOptions, LAMBDA priv : priv.type)) \cup {"All"}

\* ------------------------------------------------------------------- actions
LastOf(s, default) == IF s = <<>> THEN default ELSE s[Len(s)]

Idle == [status |-> "idle", data |-> <<>>]
Loading == [status |-> "loading", data |-> <<>>]
Loaded(results) == [status |-> "loaded", data |-> results]

CallCounts(eff) ==
  [setResources |-> Len(eff.setResources), setPrivileges |-> Len(eff.setPrivileges),
   searchResources |-> Len(eff.searchResources), searchDomains |-> Len(eff.searchDomains)]

\* values selected in the filter and in the privileges
Selected == Len(resourceTypes) + Len(resourceEntities) + Len(domains) + Len(privileges)

\* Run one handler: the parent and the state hooks apply what was called.
Invoke(op, arg, eff) ==
  /\ maybeResources' = IF eff.setResources = <<>> THEN maybeResources
                       ELSE <<eff.setResources[Len(eff.setResources)]>>
  /\ privileges' = LastOf(eff.setPrivileges, privileges)
  /\ domainInputValue' = LastOf(eff.setDomainInputValue, domainInputValue)
  /\ isFocusedOnInput' = LastOf(eff.setIsFocusedOnInput, isFocusedOnInput)
  /\ resourcesSearch' = IF eff.searchResources # <<>> THEN Loading ELSE resourcesSearch
  /\ domainsSearch' = IF eff.searchDomains # <<>> THEN Loading ELSE domainsSearch
  /\ pendingTimeouts' = pendingTimeouts + eff.setTimeout
  /\ last' = [op |-> op, arg |-> arg]
  /\ called' = CallCounts(eff)
  /\ UNCHANGED <<policyType, policiesConfig, emptyPolicyResources>>

OnSelectPrivilege ==
  \E value \in privilegeOptionValues :
    /\ value = "All" \/ Selected < MaxSelected
    /\ Invoke("onSelectPrivilege", value, onSelectPrivilege(value))

OnDeselectPrivilege ==
  \E value \in privilegeOptionValues \cup Range(privilegesSelectValue) :
    Invoke("onDeselectPrivilege", value, onDeselectPrivilege(value))

OnSelectResourceType ==
  /\ showResourceFilterInput
  /\ Selected < MaxSelected
  /\ \E value \in resourceTypeOptions :
       Invoke("onSelectResourceType", value, onSelectResourceType(value))

OnDeselectResourceType ==
  /\ showResourceFilterInput
  /\ \E value \in resourceTypeOptions \cup Range(resourceTypeSelectValue) :
       Invoke("onDeselectResourceType", value, onDeselectResourceType(value))

OnSelectResource ==
  /\ showResourceFilterInput
  /\ Selected < MaxSelected
  /\ \E value \in resourceOptions :
       Invoke("onSelectResource", value, onSelectResource(value))

OnDeselectResource ==
  /\ showResourceFilterInput
  /\ \E value \in resourceOptions \cup Range(resourceSelectValue) :
       Invoke("onDeselectResource", value, onDeselectResource(value))

OnSelectDomain ==
  /\ showResourceFilterInput
  /\ Selected < MaxSelected
  /\ \E value \in domainOptions :
       Invoke("onSelectDomain", value, onSelectDomain(value, "null"))

SelectDomainFromBrowser ==
  /\ showResourceFilterInput
  /\ Selected < MaxSelected
  /\ \E domain \in DomainUrns :
       Invoke("selectDomainFromBrowser", domain, selectDomainFromBrowser(domain))

OnDeselectDomain ==
  /\ showResourceFilterInput
  /\ \E value \in domainOptions \cup Range(domainSelectValue) :
       Invoke("onDeselectDomain", value, onDeselectDomain(value))

HandleResourceSearch(typed) ==
  /\ showResourceFilterInput
  /\ \E text \in typed :
       Invoke("handleResourceSearch", "", handleResourceSearch(text))

HandleDomainSearch(typed) ==
  /\ showResourceFilterInput
  /\ \E text \in typed :
       Invoke("handleDomainSearch", "", handleDomainSearch(text))

OnFocus ==
  /\ showResourceFilterInput
  /\ Invoke("onFocus", "", onFocus)

HandleBlur ==
  /\ showResourceFilterInput
  /\ Invoke("handleBlur", "", handleBlur)

HandleCLickOutside ==
  /\ showResourceFilterInput
  /\ pendingTimeouts < MaxTimers
  /\ Invoke("handleCLickOutside", "", handleCLickOutside)

\* the timeout callback of handleCLickOutside
TimeoutFires ==
  /\ pendingTimeouts > 0
  /\ pendingTimeouts' = pendingTimeouts - 1
  /\ isFocusedOnInput' = FALSE
  /\ last' = [op |-> "timeout", arg |-> ""]
  /\ called' = CallCounts(NoCalls)
  /\ UNCHANGED <<policyType, policiesConfig, emptyPolicyResources, maybeResources, privileges,
                 domainInputValue, resourcesSearch, domainsSearch>>

\* what the backend answers
ResourceSearchResponse == <<"urn:1", "urn:2">>
DomainSearchResponse == <<"dom:1">>

ResourcesSearchCompleted ==
  /\ resourcesSearch.status = "loading"
  /\ resourcesSearch' = Loaded(ResourceSearchResponse)
  /\ last' = [op |-> "resourcesSearchData", arg |-> ""]
  /\ called' = CallCounts(NoCalls)
  /\ UNCHANGED <<policyType, policiesConfig, emptyPolicyResources, maybeResources, privileges,
                 domainInputValue, isFocusedOnInput, domainsSearch, pendingTimeouts>>

DomainsSearchCompleted ==
  /\ domainsSearch.status = "loading"
  /\ domainsSearch' = Loaded(DomainSearchResponse)
  /\ last' = [op |-> "domainsSearchData", arg |-> ""]
  /\ called' = CallCounts(NoCalls)
  /\ UNCHANGED <<policyType, policiesConfig, emptyPolicyResources, maybeResources, privileges,
                 domainInputValue, isFocusedOnInput, resourcesSearch, pendingTimeouts>>

\* ---------------------------------------------------------------------- Init
FilterOf(criteria, all) ==
  [type |-> "", resources |-> <<>>, allResources |-> all, filter |-> <<[criteria |-> criteria]>>]

\* The props, configuration and constants the form may be mounted with.
Mounts ==
  { \* a new metadata policy
    [policyType |-> Metadata, policiesConfig |-> <<AppPoliciesConfig>>, resources |-> <<>>,
     privileges |-> <<>>, empty |-> LegacyFields("", <<>>, FALSE)],
    \* a stored policy with a legacy resource filter
    [policyType |-> Metadata, policiesConfig |-> <<AppPoliciesConfig>>,
     resources |-> <<LegacyFields("notebook", <<"urn:1">>, TRUE)>>,
     privileges |-> <<"VIEW", "EDIT_TAGS", "VIEW">>, empty |-> FilterOf(<<>>, FALSE)],
    \* a stored policy with a criteria filter
    [policyType |-> Metadata, policiesConfig |-> <<AppPoliciesConfig>>,
     resources |-> <<FilterOf(<<createCriterion("DOMAIN", <<createCriterionValue("dom:2")>>),
                                createCriterion("TYPE", <<createCriterionValue("dataset"),
                                                          createCriterionValue("notebook"),
                                                          createCriterionValue("chart"),
                                                          createCriterionValue("dataset")>>)>>, TRUE)>>,
     privileges |-> <<"VIEW">>, empty |-> FilterOf(<<>>, FALSE)],
    \* platform policies, new and stored
    [policyType |-> Platform, policiesConfig |-> <<AppPoliciesConfig>>, resources |-> <<>>,
     privileges |-> <<>>, empty |-> FilterOf(<<>>, FALSE)],
    [policyType |-> Platform, policiesConfig |-> <<AppPoliciesConfig>>,
     resources |-> <<FilterOf(<<createCriterion("TYPE", <<createCriterionValue("dataset")>>)>>, FALSE)>>,
     privileges |-> <<"MANAGE_DOMAINS", "VIEW", "MANAGE_DOMAINS">>, empty |-> FilterOf(<<>>, FALSE)],
    \* the configuration has not been loaded; EMPTY_POLICY.resources in its other shape
    [policyType |-> Metadata, policiesConfig |-> <<>>, resources |-> <<>>,
     privileges |-> <<>>, empty |-> FilterOf(<<>>, FALSE)],
    [policyType |-> Platform, policiesConfig |-> <<>>, resources |-> <<>>,
     privileges |-> <<"MANAGE_POLICIES">>, empty |-> FilterOf(<<>>, FALSE)] }

Init ==
  /\ \E mount \in Mounts :
       /\ policyType = mount.policyType
       /\ policiesConfig = mount.policiesConfig
       /\ emptyPolicyResources = mount.empty
       /\ maybeResources = mount.resources
       /\ privileges = mount.privileges
  /\ domainInputValue = <<>>
  /\ isFocusedOnInput = FALSE
  /\ resourcesSearch = Idle
  /\ domainsSearch = Idle
  /\ pendingTimeouts = 0
  /\ last = [op |-> "none", arg |-> ""]
  /\ called = CallCounts(NoCalls)

\* texts typed into the search boxes while the whole form is in use
TypedTexts == {<<>>, <<" ", "a", "a", "a">>}

\* The form in use: selecting and deselecting in the four inputs, searching,
\* and the answers of the backend.
Next ==
  \/ OnSelectPrivilege
  \/ OnDeselectPrivilege
  \/ OnSelectResourceType
  \/ OnDeselectResourceType
  \/ OnSelectResource
  \/ OnDeselectResource
  \/ OnSelectDomain
  \/ SelectDomainFromBrowser
  \/ OnDeselectDomain
  \/ HandleResourceSearch(TypedTexts)
  \/ HandleDomainSearch(TypedTexts)
  \/ HandleBlur
  \/ ResourcesSearchCompleted
  \/ DomainsSearchCompleted

Spec == Init /\ [][Next]_vars

\* The two search boxes with every text of up to MaxText characters, over
\* every selection of resource types.
NextSearch ==
  \/ OnSelectResourceType
  \/ OnDeselectResourceType
  \/ HandleResourceSearch(Texts)
  \/ HandleDomainSearch(Texts)
  \/ HandleBlur
  \/ ResourcesSearchCompleted
  \/ DomainsSearchCompleted

SpecSearch == Init /\ [][NextSearch]_vars

\* The "Select Domains" item: its search box, its focus and the domain navigator.
NextDomainInput ==
  \/ OnFocus
  \/ HandleBlur
  \/ HandleCLickOutside
  \/ TimeoutFires
  \/ HandleDomainSearch(TypedTexts)
  \/ DomainsSearchCompleted
  \/ OnSelectDomain
  \/ SelectDomainFromBrowser
  \/ OnDeselectDomain

SpecDomainInput == Init /\ [][NextDomainInput]_vars

\* ==================================================================== claims
Occurrences(s, x) == Cardinality({i \in 1..Len(s) : s[i] = x})

RECURSIVE Without(_, _)
\* s with every occurrence of x taken out, the rest in order
Without(s, x) ==
  IF s = <<>> THEN <<>>
  ELSE IF Head(s) = x THEN Without(Tail(s), x) ELSE <<Head(s)>> \o Without(Tail(s), x)

ResourceHandlers ==
  {"onSelectResourceType", "onDeselectResourceType", "onSelectResource", "onDeselectResource",
   "onSelectDomain", "selectDomainFromBrowser", "onDeselectDomain"}
PrivilegeHandlers == {"onSelectPrivilege", "onDeselectPrivilege"}

Counts(r, p, sr, sd) ==
  [setResources |-> r, setPrivileges |-> p, searchResources |-> sr, searchDomains |-> sd]

\* C1: every select/deselect handler calls exactly one callback, once: the six
\* resource-filter handlers call setResources and never setPrivileges, the two
\* privilege handlers call setPrivileges and never setResources, and each search
\* handler issues its one query and calls neither callback; a change of the
\* selected resource types leaves the privileges list as it was.
C1_OneCallbackPerHandler ==
  /\ [](/\ last.op \in ResourceHandlers => called = Counts(1, 0, 0, 0)
        /\ last.op \in PrivilegeHandlers => called = Counts(0, 1, 0, 0)
        /\ last.op = "handleResourceSearch" => called = Counts(0, 0, 1, 0)
        /\ last.op = "handleDomainSearch" => called = Counts(0, 0, 0, 1))
  /\ [][/\ last'.op \in ResourceHandlers => privileges' = privileges
        /\ last'.op \in PrivilegeHandlers => maybeResources' = maybeResources
        /\ last'.op \in {"handleResourceSearch", "handleDomainSearch"} =>
             privileges' = privileges /\ maybeResources' = maybeResources]_vars

C1_Witness ==
  /\ last.op = "onSelectResourceType"
  /\ called.setResources = 1
  /\ privileges # <<>>
  /\ domainsSearch.status # "idle"

\* C2: selecting never checks membership: the value list of the criterion (or
\* the privileges list, for a privilege other than 'All') after a select is the
\* list before it with the selected value appended, one element longer, also
\* when the value was in the list already.
C2_SelectAppends ==
  [][/\ last'.op = "onSelectResourceType" =>
          resourceTypeSelectValue' = Append(resourceTypeSelectValue, last'.arg)
     /\ last'.op = "onSelectResource" =>
          resourceSelectValue' = Append(resourceSelectValue, last'.arg)
     /\ last'.op \in {"onSelectDomain", "selectDomainFromBrowser"} =>
          domainSelectValue' = Append(domainSelectValue, last'.arg)
     /\ (last'.op = "onSelectPrivilege" /\ last'.arg # "All") =>
          privileges' = Append(privileges, last'.arg)]_vars

C2_Witness ==
  /\ last.op = "onSelectResource"
  /\ Occurrences(resourceSelectValue, last.arg) = 2

NonFilterProperties(rf) == [type |-> rf.type, resources |-> rf.resources, allResources |-> rf.allResources]

FieldOf(op) ==
  IF op \in {"onSelectResourceType", "onDeselectResourceType"} THEN "TYPE"
  ELSE IF op \in {"onSelectResource", "onDeselectResource"} THEN "URN" ELSE "DOMAIN"

\* C3: a select or deselect on one criterion leaves the value lists of the two
\* other criteria and the non-filter properties of the resources as they were,
\* and from resources without a filter it reports a filter holding at most the
\* criterion it was called for.
C3_OtherCriteriaKept ==
  [][last'.op \in ResourceHandlers =>
       /\ maybeResources' # <<>> /\ maybeResources'[1].filter # <<>>
       /\ \A field \in {"TYPE", "URN", "DOMAIN"} \ {FieldOf(last'.op)} :
            getFieldValues(maybeResources'[1].filter, field) = getFieldValues(resources.filter, field)
       /\ NonFilterProperties(maybeResources'[1]) = NonFilterProperties(resources)
       /\ resources.filter = <<>> =>
            \A i \in 1..Len(maybeResources'[1].filter[1].criteria) :
               maybeResources'[1].filter[1].criteria[i].field = FieldOf(last'.op)]_vars

C3_Witness ==
  /\ last.op = "onSelectResourceType"
  /\ domains # <<>>
  /\ resources.allResources

\* String.prototype.trim, stated by what it returns: the text between the
\* leading and the trailing whitespace
IsTrimOf(t, text) ==
  \E i \in 0..Len(text) : \E j \in i..Len(text) :
    /\ t = SubSeq(text, i + 1, j)
    /\ \A k \in 1..i : IsWhitespace(text[k])
    /\ \A k \in (j + 1)..Len(text) : IsWhitespace(text[k])
    /\ t # <<>> => ~IsWhitespace(t[1]) /\ ~IsWhitespace(t[Len(t)])

RECURSIVE MappedEntityTypes(_)
MappedEntityTypes(types) ==
  IF types = <<>> THEN <<>>
  ELSE LET entityType == mapResourceTypeToEntityType(Head(types), resourcePrivileges)
       IN (IF entityType = "null" THEN <<>> ELSE <<entityType>>) \o MappedEntityTypes(Tail(types))

\* C4: for every text, both search handlers query for the trimmed text when it
\* has more than 2 characters and for '*' otherwise, with start 0 and count 10;
\* the resource search is over the entity types the selected resource types map
\* to, the domain search over the Domain entity type, and the domain search
\* stores the trimmed text as domainInputValue.
C4_SearchQueries ==
  /\ \A text \in Texts :
       \E i \in 0..Len(text) : \E j \in i..Len(text) :
         LET t == SubSeq(text, i + 1, j)
             query == IF Len(t) > 2 THEN t ELSE <<"*">>
             r == handleResourceSearch(text)
             d == handleDomainSearch(text)
         IN /\ IsTrimOf(t, text)
            /\ r.searchResources = <<[types |-> MappedEntityTypes(resourceTypeSelectValue),
                                      query |-> query, start |-> 0, count |-> 10]>>
            /\ r.searchDomains = <<>> /\ r.setDomainInputValue = <<>>
            /\ d.searchDomains = <<[type |-> "DOMAIN", query |-> query, start |-> 0, count |-> 10]>>
            /\ d.searchResources = <<>> /\ d.setDomainInputValue = <<t>>
  /\ last.op = "handleDomainSearch" =>
       /\ IsTrimOf(domainInputValue, domainInputValue)
       /\ domainsSearch.status = "loading"
  /\ last.op = "handleResourceSearch" => resourcesSearch.status = "loading"

C4_Witness ==
  /\ last.op = "handleDomainSearch"
  /\ Len(domainInputValue) > 2
  /\ resourcesSearch.status # "idle"
  /\ "notebook" \in Range(resourceTypeSelectValue)
  /\ "chart" \in Range(resourceTypeSelectValue)

\* the privileges the dropdown offers, read off the configuration
OfferedPrivileges ==
  IF policiesConfig = <<>> THEN <<>>
  ELSE IF policyType = Platform THEN policiesConfig[1].platformPrivileges
       ELSE mapResourceTypeToPrivileges(resourceTypeSelectValue, policiesConfig[1].resourcePrivileges)

\* C5: selecting 'All' sets the privileges to the types of the offered options,
\* in option order and without 'All' (the platform privileges for a platform
\* policy, else the privileges of the selected resource types); deselecting
\* 'All' sets the privileges to the empty list.
C5_AllPrivileges ==
  [][/\ (last'.op = "onSelectPrivilege" /\ last'.arg = "All") =>
          /\ Len(privileges') = Len(OfferedPrivileges)
          /\ \A i \in 1..Len(OfferedPrivileges) : privileges'[i] = OfferedPrivileges[i].type
          /\ "All" \notin Range(privileges')
     /\ (last'.op = "onDeselectPrivilege" /\ last'.arg = "All") => privileges' = <<>>]_vars

C5_Witness ==
  /\ last = [op |-> "onSelectPrivilege", arg |-> "All"]
  /\ policyType = Metadata
  /\ resourceTypes # <<>>
  /\ privileges = <<"EDIT_TAGS">>

\* every value a dropdown of the model can offer
SelectableValues ==
  {"dataset", "chart", "urn:1", "urn:2", "dom:1", "VIEW", "EDIT_TAGS", "MANAGE_POLICIES", "MANAGE_DOMAINS", "All"}

\* C6: deselecting a value (other than the privilege 'All') takes every
\* occurrence of it out of the list and keeps the rest in order; deselecting a
\* value that is not in the list leaves the list as it was, and deselecting a
\* value right after selecting it into a list that did not hold it gives the
\* list back.
C6_DeselectRemovesAll ==
  [][/\ last'.op = "onDeselectResourceType" =>
          resourceTypeSelectValue' = Without(resourceTypeSelectValue, last'.arg)
     /\ last'.op = "onDeselectResource" =>
          resourceSelectValue' = Without(resourceSelectValue, last'.arg)
     /\ last'.op = "onDeselectDomain" =>
          domainSelectValue' = Without(domainSelectValue, last'.arg)
     /\ (last'.op = "onDeselectPrivilege" /\ last'.arg # "All") =>
          privileges' = Without(privileges, last'.arg)
     /\ \A v \in {x \in SelectableValues : x = last'.arg} :
          /\ (last'.op = "onSelectResourceType" /\ v \notin Range(resourceTypeSelectValue)) =>
               getFieldValues(onDeselectResourceType(v)'.setResources[1].filter, "TYPE") = resourceTypes
          /\ (last'.op = "onSelectResource" /\ v \notin Range(resourceSelectValue)) =>
               getFieldValues(onDeselectResource(v)'.setResources[1].filter, "URN") = resourceEntities
          /\ (last'.op \in {"onSelectDomain", "selectDomainFromBrowser"}
                /\ v \notin Range(domainSelectValue)) =>
               getFieldValues(onDeselectDomain(v)'.setResources[1].filter, "DOMAIN") = domains
          /\ (last'.op = "onSelectPrivilege" /\ v # "All" /\ v \notin Range(privileges)) =>
               onDeselectPrivilege(v)'.setPrivileges[1] = privileges]_vars

C6_Witness ==
  /\ last = [op |-> "onDeselectResourceType", arg |-> "notebook"]
  /\ resourceTypeSelectValue = <<"dataset", "chart", "dataset">>

\* C7: a platform policy renders none of the three resource inputs, so its form
\* never calls setResources and never searches, and what it selects is a
\* platform privilege or 'All'; any other policy renders the three inputs.
C7_PlatformHasNoResourceInputs ==
  /\ [](/\ policyType = Platform =>
             /\ ~showResourceFilterInput
             /\ last.op \in PrivilegeHandlers \cup {"none"}
             /\ called.setResources = 0 /\ called.searchResources = 0 /\ called.searchDomains = 0
             /\ resourcesSearch = Idle /\ domainsSearch = Idle
             /\ last.op = "onSelectPrivilege" =>
                  last.arg \in {platformPrivileges[i].type : i \in 1..Len(platformPrivileges)} \cup {"All"}
        /\ policyType # Platform => showResourceFilterInput)
  /\ [][policyType = Platform => maybeResources' = maybeResources]_vars

C7_Witness ==
  /\ policyType = Platform
  /\ last = [op |-> "onSelectPrivilege", arg |-> "MANAGE_DOMAINS"]
  /\ maybeResources # <<>>
====
